---- MODULE Spec2Model ----
(***************************************************************************)
(* A model of pydepsdev's DepsdevAPI client (src/pydepsdev/api.py): the    *)
(* retrying fetch_data coroutine, the aiohttp session it shares, and the   *)
(* APIError it raises (src/pydepsdev/exceptions.py).                        *)
(*                                                                         *)
(* Durations are integers counted in tenths of a second, so that the       *)
(* jitter bound 0.1 * 2**attempt_count is the integer 2^attempt_count.     *)
(* An Optional[int] is a sequence: <<>> is None and <<s>> is the int s.    *)
(***************************************************************************)
EXTENDS Integers, Sequences, FiniteSets

\* Largest max_retries a client is constructed with.
MaxRetries == 2

\* Largest number of direct calls of the validators of utils.py.
MaxValidations == 2

\* Largest number of calls of close() on the client, __aexit__ included.
MaxCloses == 2

None == <<>>
Some(x) == <<x>>

\* The coroutines that call fetch_data on the one client instance.
Calls == {"c1", "c2"}

\* max_retries is an unchecked int argument of __init__.
RetryDomain == {-1} \cup (0 .. MaxRetries)

\* base_backoff and max_backoff are unchecked float arguments of __init__;
\* in tenths of a second: 0s, 0.5s, 1s, 3s.
BackoffDomain == {0, 5, 10, 30}

\* timeout_duration is an unchecked float argument of __init__; in tenths
\* of a second: 0s, 5s.
TimeoutDomain == {0, 50}

\* JSON bodies the server may deliver.
Payloads == {"{\"ok\": true}", "[]"}

\* Statuses of the responses whose body http_response.json() decodes: the
\* session is built without raise_for_status, and json() looks at the
\* Content-Type and the body of the response, never at its status.
ResponseStatuses == {200, 404, 500}

\* aiohttp.ClientResponseError instances (status, message) the transport may
\* raise out of session.get(...) / http_response.json(); json() raises its
\* subclass ContentTypeError, with the status of the response, for a body
\* that is not announced as JSON.
StatusErrors ==
    { [status |-> 200, message |-> "unexpected mimetype: text/html"],
      [status |-> 404, message |-> "Not Found"],
      [status |-> 600, message |-> "Unknown"],
      [status |-> 500, message |-> "Internal Server Error"],
      [status |-> 502, message |-> "Bad Gateway"] }

\* aiohttp.ServerTimeoutError / aiohttp.ClientConnectionError instances,
\* with their str().
NetworkErrors ==
    { [kind |-> "ServerTimeoutError", message |-> "timed out"],
      [kind |-> "ClientConnectionError", message |-> "ko"] }

\* Exceptions of other types that the body of the try block may raise:
\* json.JSONDecodeError for an unparseable body, asyncio.TimeoutError for the
\* total timeout.
OtherErrors == {"JSONDecodeError", "TimeoutError"}

VARIABLES
    max_retries,    \* self.max_retries
    base_backoff,   \* self.base_backoff
    max_backoff,    \* self.max_backoff
    timeout_duration, \* self.timeout_duration
    session,        \* self.session: the ClientSession, "open" or "closed"
    releases,       \* how often the session's connector has been released
    close_calls,    \* how often close() has run
    context,        \* the `async with` block: "none", "entered", "exited"
    callers,        \* the coroutines the application runs
    validations,    \* the direct calls of validate_system / validate_hash
    calls           \* per call of fetch_data: its frame and what it observed

vars ==
    <<max_retries, base_backoff, max_backoff, timeout_duration, session,
      releases, close_calls, context, callers, validations, calls>>

config == <<max_retries, base_backoff, max_backoff, timeout_duration>>

\* The client object apart from its configuration.
client == <<session, releases, close_calls, context>>

Min(a, b) == IF a <= b THEN a ELSE b

\* APIError(status, message): the message is kept in its parts, the literal
\* prefix of the f-string, the interpolated retry count, the interpolated
\* upstream text.
APIError(status, prefix, retries, detail) ==
    [type |-> "APIError", status |-> status, prefix |-> prefix,
     retries |-> retries, detail |-> detail]

\* An exception that is not an APIError, propagating out of fetch_data.
Propagated(type) ==
    [type |-> type, status |-> None, prefix |-> "", retries |-> None,
     detail |-> ""]

\* The value handed back by `return response_json`.
Returned(payload) ==
    [type |-> "return", status |-> None, prefix |-> "", retries |-> None,
     detail |-> payload]

NoResult ==
    [type |-> "pending", status |-> None, prefix |-> "", retries |-> None,
     detail |-> ""]

\* What one attempt observed.
Outcome(kind, status, body) == [kind |-> kind, status |-> status, body |-> body]

\* Variant: the jitter is drawn from twice the range.
JitterRange_Double(attempt_count) == 0 .. (2 * (2 ^ attempt_count))

\* random.uniform(0, 0.1 * (2**attempt_count)), in tenths of a second.
JitterRange(attempt_count) == 0 .. (2 ^ attempt_count)

\* Variant: the exponent is the number of the retry to come, not the index
\* of the attempt that failed.
SleepDuration_NextExponent(base, maxb, attempt_count, jitter) ==
    Min(base * (2 ^ (attempt_count + 1)) + jitter, maxb)

\* Variant: the jitter is added after the clamp.
SleepDuration_JitterAfterClamp(base, maxb, attempt_count, jitter) ==
    Min(base * (2 ^ attempt_count), maxb) + jitter

\* min(base_backoff * 2**attempt_count + jitter, max_backoff)
SleepDuration(base, maxb, attempt_count, jitter) ==
    Min(base * (2 ^ attempt_count) + jitter, maxb)

\* Variant: a three-way reading, where whatever is not a 4xx is retried.
IsServerError_Not4xx(status_code) == ~(400 <= status_code /\ status_code < 500)

\* Variant: the retryable range starts at 400.
IsServerError_From400(status_code) == 400 <= status_code /\ status_code < 600

\* `if 500 <= status_code < 600`
IsServerError(status_code) == 500 <= status_code /\ status_code < 600

\* Variant: a retry is still granted at attempt_count = max_retries.
MayRetry_Inclusive(attempt_count) == attempt_count <= max_retries

\* Variant: the last retry is never granted.
MayRetry_OffByOne(attempt_count) == attempt_count + 1 < max_retries

\* `if attempt_count < self.max_retries`
MayRetry(attempt_count) == attempt_count < max_retries

\* Variant: the loop runs while attempt_count < max_retries.
LoopCondition_Strict(attempt_count) == attempt_count < max_retries

\* `while attempt_count <= self.max_retries`
LoopCondition(attempt_count) == attempt_count <= max_retries

\* Variant: the increment is forgotten.
NextAttempt_Stuck(attempt_count) == attempt_count

\* Variant: the counter is advanced twice per retry.
NextAttempt_Twice(attempt_count) == attempt_count + 2

\* `attempt_count += 1`
NextAttempt(attempt_count) == attempt_count + 1

\* The method a coroutine called, with the arguments that matter to
\* validation: the system, the hash type and, for a call that passes one list
\* of version requests, the length of the list (-1: no list was passed).
Invocation(method, system, hash_type, requests) ==
    [method |-> method, system |-> system, hash_type |-> hash_type,
     requests |-> requests]

NotCalled == Invocation("", "", "", -1)

InitCall ==
    [pc |-> "idle", attempt_count |-> 0, sleep_duration |-> 0,
     sleeps |-> 0, outcomes |-> <<>>, result |-> NoResult,
     invoked |-> NotCalled]

\* Variant: a closed session is not noticed, the GET is issued all the same.
LoopHead_IgnoresClosed(f) ==
    IF LoopCondition(f.attempt_count)
    THEN [f EXCEPT !.pc = "request"]
    ELSE [f EXCEPT !.pc = "raised",
                   !.result = APIError(None, "Exceeded retry loop unexpectedly",
                                       None, "")]

\* The top of the while loop for a frame f: either the GET is issued, or the
\* closed session refuses it with RuntimeError (which no except clause
\* names), or the loop is left and the final raise is executed.
LoopHead(f) ==
    IF LoopCondition(f.attempt_count)
    THEN IF session = "closed"
         THEN [f EXCEPT !.pc = "raised",
                        !.outcomes = Append(@, Outcome("RuntimeError", None,
                                                       "Session is closed")),
                        !.result = Propagated("RuntimeError")]
         ELSE [f EXCEPT !.pc = "request"]
    ELSE [f EXCEPT !.pc = "raised",
                   !.result = APIError(None, "Exceeded retry loop unexpectedly",
                                       None, "")]

TypeOK ==
    /\ max_retries \in RetryDomain
    /\ base_backoff \in BackoffDomain
    /\ max_backoff \in BackoffDomain
    /\ timeout_duration \in TimeoutDomain
    /\ session \in {"open", "closed"}
    /\ releases \in 0 .. MaxCloses
    /\ close_calls \in 0 .. MaxCloses
    /\ context \in {"none", "entered", "exited"}
    /\ callers \subseteq Calls
    /\ Len(validations) <= MaxValidations
    /\ DOMAIN calls = Calls
    /\ \A c \in Calls :
         /\ calls[c].pc \in {"idle", "request", "sleeping", "returned", "raised"}
         /\ calls[c].attempt_count \in Nat
         /\ calls[c].sleeps \in Nat

\* __init__, but for the configuration: `self.session =
\* aiohttp.ClientSession()` opens the session.
InitClient ==
    /\ session = "open"
    /\ releases = 0
    /\ close_calls = 0
    /\ context = "none"
    /\ validations = <<>>
    /\ calls = [c \in Calls |-> InitCall]

\* __init__
Init ==
    /\ max_retries \in RetryDomain
    /\ base_backoff \in BackoffDomain
    /\ max_backoff \in BackoffDomain
    /\ timeout_duration \in TimeoutDomain
    /\ InitClient
    /\ callers = {"c1"}

\* fetch_data is called: attempt_count = 0 and the loop is entered.
FetchData(c) ==
    /\ c \in callers
    /\ calls[c].pc = "idle"
    /\ calls' = [calls EXCEPT ![c] =
          LoopHead([@ EXCEPT !.invoked =
                       Invocation("fetch_data", "", "", -1)])]
    /\ UNCHANGED <<config, client, callers, validations>>

\* A response arrives, of whatever status, and http_response.json() decodes
\* its body: `return response_json`.
ResponseJson(c) ==
    /\ calls[c].pc = "request"
    /\ \E status \in ResponseStatuses, p \in Payloads :
         calls' = [calls EXCEPT ![c] =
            [@ EXCEPT !.pc = "returned",
                      !.outcomes = Append(@, Outcome("success", Some(status),
                                                     p)),
                      !.result = Returned(p)]]
    /\ UNCHANGED <<config, client, callers, validations>>

\* Variant: the exhausted call reports the status of its first attempt.
HandleResponseError_FirstStatus(f, error, jitter) ==
    IF IsServerError(error.status)
    THEN IF MayRetry(f.attempt_count)
         THEN [f EXCEPT !.pc = "sleeping",
                        !.sleep_duration =
                            SleepDuration(base_backoff, max_backoff,
                                          f.attempt_count, jitter),
                        !.sleeps = @ + 1]
         ELSE [f EXCEPT !.pc = "raised",
                        !.result = APIError(f.outcomes[1].status,
                                            "Server error after",
                                            Some(max_retries), error.message)]
    ELSE [f EXCEPT !.pc = "raised",
                   !.result = APIError(Some(error.status), "Client error",
                                       None, error.message)]

\* The body of `except aiohttp.ClientResponseError as error`, for frame f.
HandleResponseError(f, error, jitter) ==
    IF IsServerError(error.status)
    THEN IF MayRetry(f.attempt_count)
         THEN [f EXCEPT !.pc = "sleeping",
                        !.sleep_duration =
                            SleepDuration(base_backoff, max_backoff,
                                          f.attempt_count, jitter),
                        !.sleeps = @ + 1]
         ELSE [f EXCEPT !.pc = "raised",
                        !.result = APIError(Some(error.status),
                                            "Server error after",
                                            Some(max_retries), error.message)]
    ELSE [f EXCEPT !.pc = "raised",
                   !.result = APIError(Some(error.status), "Client error",
                                       None, error.message)]

\* The attempt raises aiohttp.ClientResponseError.
ClientResponseError(c) ==
    /\ calls[c].pc = "request"
    /\ \E error \in StatusErrors :
       \E jitter \in JitterRange(calls[c].attempt_count) :
         LET f == [calls[c] EXCEPT
                     !.outcomes = Append(@, Outcome("status",
                                     Some(error.status), error.message))]
         IN calls' = [calls EXCEPT ![c] = HandleResponseError(f, error, jitter)]
    /\ UNCHANGED <<config, client, callers, validations>>

\* Variant: a network failure is raised at once, never retried.
HandleNetworkError_NoRetry(f, network_error, jitter) ==
    [f EXCEPT !.pc = "raised",
              !.result = APIError(None, "Network failure after",
                                  Some(max_retries), network_error.message)]

\* The body of `except (ServerTimeoutError, ClientConnectionError)`.
HandleNetworkError(f, network_error, jitter) ==
    IF MayRetry(f.attempt_count)
    THEN [f EXCEPT !.pc = "sleeping",
                   !.sleep_duration =
                       SleepDuration(base_backoff, max_backoff,
                                     f.attempt_count, jitter),
                   !.sleeps = @ + 1]
    ELSE [f EXCEPT !.pc = "raised",
                   !.result = APIError(None, "Network failure after",
                                       Some(max_retries),
                                       network_error.message)]

\* The attempt raises ServerTimeoutError or ClientConnectionError.
NetworkError(c) ==
    /\ calls[c].pc = "request"
    /\ \E network_error \in NetworkErrors :
       \E jitter \in JitterRange(calls[c].attempt_count) :
         LET f == [calls[c] EXCEPT
                     !.outcomes = Append(@, Outcome(network_error.kind, None,
                                                    network_error.message))]
         IN calls' = [calls EXCEPT ![c] =
                         HandleNetworkError(f, network_error, jitter)]
    /\ UNCHANGED <<config, client, callers, validations>>

\* Variant: a bare `except Exception` retries the attempt while the budget
\* lasts.
UnexpectedError_Retried(c) ==
    /\ calls[c].pc = "request"
    /\ \E x \in OtherErrors, jitter \in JitterRange(calls[c].attempt_count) :
         LET f == [calls[c] EXCEPT !.outcomes = Append(@, Outcome(x, None, ""))]
         IN calls' = [calls EXCEPT ![c] =
               IF MayRetry(f.attempt_count)
               THEN [f EXCEPT !.pc = "sleeping",
                              !.sleep_duration =
                                  SleepDuration(base_backoff, max_backoff,
                                                f.attempt_count, jitter),
                              !.sleeps = @ + 1]
               ELSE [f EXCEPT !.pc = "raised", !.result = Propagated(x)]]
    /\ UNCHANGED <<config, client, callers, validations>>

\* The attempt raises an exception no except clause names: it leaves
\* fetch_data as it is.
UnexpectedError(c) ==
    /\ calls[c].pc = "request"
    /\ \E x \in OtherErrors :
         calls' = [calls EXCEPT ![c] =
            [@ EXCEPT !.pc = "raised",
                      !.outcomes = Append(@, Outcome(x, None, "")),
                      !.result = Propagated(x)]]
    /\ UNCHANGED <<config, client, callers, validations>>

\* Variant: the attempt counter is one attribute of the client, shared by
\* all the calls in flight.
SleepDone_SharedCounter(c) ==
    /\ calls[c].pc = "sleeping"
    /\ calls' = [d \in Calls |->
          IF d = c
          THEN LoopHead([calls[d] EXCEPT !.attempt_count = NextAttempt(@)])
          ELSE [calls[d] EXCEPT !.attempt_count = NextAttempt(@)]]
    /\ UNCHANGED <<config, client, callers, validations>>

\* Variant: each retry is taken off self.max_retries.
SleepDone_ConsumesBudget(c) ==
    /\ calls[c].pc = "sleeping"
    /\ calls' = [calls EXCEPT ![c] =
                    LoopHead([@ EXCEPT !.attempt_count = NextAttempt(@)])]
    /\ max_retries' = max_retries - 1
    /\ UNCHANGED <<base_backoff, max_backoff, timeout_duration, client,
                   callers, validations>>

\* asyncio.sleep(sleep_duration) completes: attempt_count += 1, loop again.
SleepDone(c) ==
    /\ calls[c].pc = "sleeping"
    /\ calls' = [calls EXCEPT ![c] =
                    LoopHead([@ EXCEPT !.attempt_count = NextAttempt(@)])]
    /\ UNCHANGED <<config, client, callers, validations>>

\* Variant: every close() releases the connector again.
CloseSession_Unguarded ==
    /\ session' = "closed"
    /\ releases' = releases + 1

\* `await self.session.close()`: aiohttp's ClientSession.close() releases
\* the connector if the session is not closed yet, and does nothing else.
CloseSession ==
    /\ session' = "closed"
    /\ releases' = IF session = "open" THEN releases + 1 ELSE releases

\* close()
Close ==
    /\ close_calls < MaxCloses
    /\ close_calls' = close_calls + 1
    /\ CloseSession
    /\ UNCHANGED <<config, context, callers, validations, calls>>

\* __aenter__: `return self`
AEnter ==
    /\ context = "none"
    /\ context' = "entered"
    /\ UNCHANGED <<config, session, releases, close_calls, callers,
                   validations, calls>>

\* __aexit__: `await self.close()`
AExit ==
    /\ context = "entered"
    /\ close_calls < MaxCloses
    /\ context' = "exited"
    /\ close_calls' = close_calls + 1
    /\ CloseSession
    /\ UNCHANGED <<config, callers, validations, calls>>

(***************************************************************************)
(* The endpoint methods of api.py and the validators of utils.py.          *)
(***************************************************************************)

\* constants.SUPPORTED_SYSTEMS
SupportedSystems ==
    {"GO", "RUBYGEMS", "NPM", "CARGO", "MAVEN", "PYPI", "NUGET"}

\* constants.SUPPORTED_HASHES
SupportedHashes == {"MD5", "SHA1", "SHA256", "SHA512"}

\* str.upper() on the identifiers the model passes around.
Upper(s) ==
    CASE s = "npm" -> "NPM"
      [] s = "nuget" -> "NUGET"
      [] s = "go" -> "GO"
      [] s = "pypi" -> "PYPI"
      [] s = "invalid" -> "INVALID"
      [] s = "i_do_not_exist" -> "I_DO_NOT_EXIST"
      [] s = "rubygems" -> "RUBYGEMS"
      [] s = "cargo" -> "CARGO"
      [] s = "maven" -> "MAVEN"
      [] s = "sha256" -> "SHA256"
      [] s = "sha512" -> "SHA512"
      [] s = "sha1" -> "SHA1"
      [] s = "sha1024" -> "SHA1024"
      [] s = "md5" -> "MD5"
      [] s = "bad" -> "BAD"
      [] OTHER -> s

\* A ValueError with the text its message starts with.
ValueError(text) ==
    [type |-> "ValueError", status |-> None, prefix |-> text,
     retries |-> None, detail |-> ""]

\* validate_system(system): TRUE when it returns, FALSE when it raises.
validate_system(system) == Upper(system) \in SupportedSystems

\* validate_hash(hash_type): TRUE when it returns, FALSE when it raises.
validate_hash(hash_type) == Upper(hash_type) \in SupportedHashes

\* The methods class DepsdevAPI defines, fetch_data and the lifecycle apart.
DefinedMethods ==
    {"get_package", "get_version", "get_version_batch", "get_requirements",
     "get_dependencies", "get_project", "get_project_package_versions",
     "get_advisory", "query_package_versions"}

\* System names the callers pass.
SystemNames == {"nuget", "NPM", "invalid"}

\* Hash types the callers pass; "" stands for None.
HashNames == {"", "sha256", "bad"}

\* Lengths of the request lists the callers pass to get_version_batch.
BatchSizes == {0, 1, 5001}

\* A frame that ends by raising `error` before fetch_data is reached.
RaiseEarly(f, invocation, error) ==
    [f EXCEPT !.pc = "raised", !.invoked = invocation, !.result = error]

\* `return await self.fetch_data(endpoint_url)`
Fetch(f, invocation) == LoopHead([f EXCEPT !.invoked = invocation])

\* get_requirements
GetRequirements(c) ==
    /\ c \in callers
    /\ calls[c].pc = "idle"
    /\ \E system_name \in SystemNames :
         LET inv == Invocation("get_requirements", system_name, "", -1)
         IN calls' = [calls EXCEPT ![c] =
               IF Upper(system_name) # "NUGET"
               THEN RaiseEarly(@, inv,
                       ValueError("get_requirements is only available for"))
               ELSE Fetch(@, inv)]
    /\ UNCHANGED <<config, client, callers, validations>>

\* get_dependencies
GetDependencies(c) ==
    /\ c \in callers
    /\ calls[c].pc = "idle"
    /\ \E system_name \in SystemNames :
         LET inv == Invocation("get_dependencies", system_name, "", -1)
         IN calls' = [calls EXCEPT ![c] =
               IF ~validate_system(system_name)
               THEN RaiseEarly(@, inv,
                       ValueError("This operation is currently only available for"))
               ELSE Fetch(@, inv)]
    /\ UNCHANGED <<config, client, callers, validations>>

\* query_package_versions(hash_type=..., version_system=...)
QueryPackageVersions(c) ==
    /\ c \in callers
    /\ calls[c].pc = "idle"
    /\ \E hash_type \in HashNames, version_system \in SystemNames \cup {""} :
         LET inv == Invocation("query_package_versions", version_system,
                               hash_type, -1)
         IN calls' = [calls EXCEPT ![c] =
               IF hash_type # "" /\ ~validate_hash(hash_type)
               THEN RaiseEarly(@, inv,
                       ValueError("This operation is currently only available for"))
               ELSE IF version_system # "" /\ ~validate_system(version_system)
               THEN RaiseEarly(@, inv,
                       ValueError("This operation is currently only available for"))
               ELSE Fetch(@, inv)]
    /\ UNCHANGED <<config, client, callers, validations>>

\* get_version_batch(system_name, package_name, version) is an alias of
\* get_version. Called with one list of version requests, the two other
\* positional parameters are missing and the call raises TypeError.
GetVersionBatch(c) ==
    /\ c \in callers
    /\ calls[c].pc = "idle"
    /\ \/ \E n \in BatchSizes :
            calls' = [calls EXCEPT ![c] =
               RaiseEarly(@, Invocation("get_version_batch", "", "", n),
                          Propagated("TypeError"))]
       \/ \E system_name \in SystemNames :
            LET inv == Invocation("get_version_batch", system_name, "", -1)
            IN calls' = [calls EXCEPT ![c] =
                  IF ~validate_system(system_name)
                  THEN RaiseEarly(@, inv,
                          ValueError("This operation is currently only available for"))
                  ELSE Fetch(@, inv)]
    /\ UNCHANGED <<config, client, callers, validations>>

\* A method the tests call and class DepsdevAPI does not define: the
\* attribute lookup raises AttributeError.
UndefinedMethod(c) ==
    /\ c \in callers
    /\ calls[c].pc = "idle"
    /\ \E method \in {"get_dependents", "get_capabilities"} \ DefinedMethods :
       \E system_name \in SystemNames :
         calls' = [calls EXCEPT ![c] =
            RaiseEarly(@, Invocation(method, system_name, "", -1),
                       Propagated("AttributeError"))]
    /\ UNCHANGED <<config, client, callers, validations>>

\* Identifiers the callers of validate_system pass.
SystemArguments ==
    SupportedSystems \cup
    {"go", "rubygems", "npm", "cargo", "maven", "pypi", "nuget",
     "invalid", "i_do_not_exist"}

\* Identifiers the callers of validate_hash pass.
HashArguments ==
    SupportedHashes \cup {"md5", "sha1", "sha256", "sha512", "SHA1024", "bad"}

\* constants.SUPPORTED_SYSTEMS_QUERY
SupportedSystemsQuery == {"GO", "NPM", "CARGO", "MAVEN", "PYPI", "NUGET"}

\* The lists the tests pass as allowed_systems=...
AllowedLists == {{"GO"}, SupportedSystemsQuery}

\* One call of a validator and how it ended: "ok" when it returned, else
\* the type of the exception, with the text of its message.
Validation(fn, arg, passed, allowed, outcome, message) ==
    [fn |-> fn, arg |-> arg, passed |-> passed, allowed |-> allowed,
     outcome |-> outcome, message |-> message]

\* validate_system(system), and validate_system(system, allowed_systems=...)
\* as the tests call it: the function has the one parameter `system`, so the
\* keyword argument raises TypeError.
CallValidateSystem ==
    /\ Len(validations) < MaxValidations
    /\ \E system \in SystemArguments :
         \/ validations' = Append(validations,
               IF validate_system(system)
               THEN Validation("validate_system", system, FALSE, {}, "ok", "")
               ELSE Validation("validate_system", system, FALSE, {},
                       "ValueError",
                       "This operation is currently only available for"))
         \/ \E allowed_systems \in AllowedLists :
               validations' = Append(validations,
                  Validation("validate_system", system, TRUE, allowed_systems,
                             "TypeError", "unexpected keyword argument"))
    /\ UNCHANGED <<config, client, callers, calls>>

\* validate_hash(hash_type)
CallValidateHash ==
    /\ Len(validations) < MaxValidations
    /\ \E hash_type \in HashArguments :
         validations' = Append(validations,
            IF validate_hash(hash_type)
            THEN Validation("validate_hash", hash_type, FALSE, {}, "ok", "")
            ELSE Validation("validate_hash", hash_type, FALSE, {},
                    "ValueError",
                    "This operation is currently only available for"))
    /\ UNCHANGED <<config, client, callers, calls>>

Next ==
    \/ \E c \in Calls : FetchData(c)
    \/ \E c \in Calls : ResponseJson(c)
    \/ \E c \in Calls : ClientResponseError(c)
    \/ \E c \in Calls : NetworkError(c)
    \/ \E c \in Calls : UnexpectedError(c)
    \/ \E c \in Calls : SleepDone(c)
    \/ Close

Spec == Init /\ [][Next]_vars

\* The attempt in flight ends: `await` on session.get(...) and on
\* http_response.json() resumes the coroutine with a payload or an exception.
TransportCompletes(c) ==
    \/ ResponseJson(c)
    \/ ClientResponseError(c)
    \/ NetworkError(c)
    \/ UnexpectedError(c)

\* The event loop resumes a coroutine whose await has completed: every
\* transport call in flight ends and every asyncio.sleep returns.  Nothing
\* obliges a caller to call fetch_data, nor anyone to close the session.
Fairness ==
    \A c \in Calls :
        /\ WF_vars(TransportCompletes(c))
        /\ WF_vars(SleepDone(c))

SpecFair == Init /\ [][Next]_vars /\ Fairness

\* A client with little retrying, for the lifecycle and the endpoints.
InitSmall ==
    /\ max_retries \in {0, 1}
    /\ base_backoff = 10
    /\ max_backoff = 30
    /\ timeout_duration \in TimeoutDomain
    /\ InitClient
    /\ callers = {"c1"}

NextClient ==
    \/ Next
    \/ AEnter
    \/ AExit
    \/ \E c \in Calls : GetRequirements(c)
    \/ \E c \in Calls : GetDependencies(c)
    \/ \E c \in Calls : QueryPackageVersions(c)
    \/ \E c \in Calls : GetVersionBatch(c)
    \/ \E c \in Calls : UndefinedMethod(c)

\* The whole client: fetch_data, the endpoints, close and `async with`.
SpecClient == InitSmall /\ [][NextClient]_vars

\* Two coroutines call fetch_data on the one client.
InitConcurrent ==
    /\ max_retries \in {0, 1}
    /\ base_backoff = 10
    /\ max_backoff = 30
    /\ timeout_duration = 50
    /\ InitClient
    /\ callers = Calls

SpecConcurrent == InitConcurrent /\ [][Next]_vars

\* No client call, only the validators of utils.py.
InitUtils ==
    /\ max_retries = 0
    /\ base_backoff = 0
    /\ max_backoff = 0
    /\ timeout_duration = 0
    /\ InitClient
    /\ callers = {}

NextUtils == CallValidateSystem \/ CallValidateHash

SpecUtils == InitUtils /\ [][NextUtils]_vars

(***************************************************************************)
(* Observations on a call.                                                 *)
(***************************************************************************)
Terminated(c) == calls[c].pc \in {"returned", "raised"}

\* The number of attempts (entries of the try block) the call has made.
Attempts(c) ==
    Len(calls[c].outcomes) + (IF calls[c].pc = "request" THEN 1 ELSE 0)

Last(s) == s[Len(s)]

Is5xx(o) == o.kind = "status" /\ 500 <= o.status[1] /\ o.status[1] <= 599
Is4xx(o) == o.kind = "status" /\ 400 <= o.status[1] /\ o.status[1] <= 499
IsConnection(o) == o.kind = "ClientConnectionError"
IsTimeout(o) == o.kind = "ServerTimeoutError"

IsNetwork(o) == IsTimeout(o) \/ IsConnection(o)
IsRetryable(o) == Is5xx(o) \/ IsNetwork(o)

\* The call has made attempts, and all of them ended the given way.
All5xx(c) ==
    /\ calls[c].outcomes # <<>>
    /\ \A i \in 1 .. Len(calls[c].outcomes) : Is5xx(calls[c].outcomes[i])

AllConnection(c) ==
    /\ calls[c].outcomes # <<>>
    /\ \A i \in 1 .. Len(calls[c].outcomes) :
          IsConnection(calls[c].outcomes[i])

AllRetryable(c) ==
    /\ calls[c].outcomes # <<>>
    /\ \A i \in 1 .. Len(calls[c].outcomes) :
          IsRetryable(calls[c].outcomes[i])

(***************************************************************************)
(* C1: with max_retries = N >= 0, a call whose every attempt fails with a  *)
(* 5xx status error never makes more than N+1 attempts, and when it has    *)
(* ended it has made exactly N+1 attempts and raised APIError with the     *)
(* 5xx status and the message "Server error after N retries: ...".         *)
(***************************************************************************)
C1_ServerErrorExhaustion ==
    \A c \in Calls :
        (max_retries >= 0 /\ All5xx(c)) =>
            /\ Attempts(c) <= max_retries + 1
            /\ Terminated(c) =>
                /\ Attempts(c) = max_retries + 1
                /\ calls[c].result =
                     APIError(Last(calls[c].outcomes).status,
                              "Server error after", Some(max_retries),
                              Last(calls[c].outcomes).body)

C1_Witness ==
    \E c \in Calls :
        /\ max_retries = MaxRetries
        /\ All5xx(c)
        /\ Terminated(c)
        /\ Len(calls[c].outcomes) = MaxRetries + 1
        /\ calls[c].result.prefix = "Server error after"

C3_SuccessShortCircuits ==
    \A c \in Calls :
        \A i \in 1 .. Len(calls[c].outcomes) :
            calls[c].outcomes[i].kind = "success" =>
                /\ i = Len(calls[c].outcomes)
                /\ Attempts(c) = i
                /\ calls[c].attempt_count = i - 1
                /\ calls[c].attempt_count <= max_retries
                /\ calls[c].pc = "returned"
                /\ calls[c].result = Returned(calls[c].outcomes[i].body)

\* max_retries=2, base_backoff=0, max_backoff=0; 500, 502, 200 {"ok": true}.
C3_Witness ==
    \E c \in Calls :
        /\ max_retries = 2 /\ base_backoff = 0 /\ max_backoff = 0
        /\ Len(calls[c].outcomes) = 3
        /\ calls[c].outcomes[1].status = Some(500)
        /\ calls[c].outcomes[2].status = Some(502)
        /\ calls[c].outcomes[3] =
              Outcome("success", Some(200), "{\"ok\": true}")
        /\ calls[c].result = Returned("{\"ok\": true}")

(***************************************************************************)
(* C4: a call whose every attempt raises a connection failure, once it     *)
(* has ended, has raised APIError with status None and a "Network failure" *)
(* message after exactly max_retries+1 attempts.                           *)
(***************************************************************************)
C4_NetworkFailureExhaustion ==
    \A c \in Calls :
        (max_retries >= 0 /\ AllConnection(c)) =>
            /\ Attempts(c) <= max_retries + 1
            /\ Terminated(c) =>
                /\ Attempts(c) = max_retries + 1
                /\ calls[c].result =
                     APIError(None, "Network failure after",
                              Some(max_retries), Last(calls[c].outcomes).body)

C4_Witness ==
    \E c \in Calls :
        /\ max_retries = MaxRetries
        /\ AllConnection(c)
        /\ Terminated(c)
        /\ Len(calls[c].outcomes) = MaxRetries + 1
        /\ calls[c].result.status = None
        /\ calls[c].result.prefix = "Network failure after"

\* base_backoff * 2**attempt_count, the delay before the jitter is added.
Unjittered(c) == base_backoff * (2 ^ calls[c].attempt_count)

(***************************************************************************)
(* C5, as stated: whenever a call sleeps at attempt index i, its delay d   *)
(* satisfies base_backoff * 2^i <= d <= min(base_backoff * 2^i * 1.1,      *)
(* max_backoff), the jitter being at most 10% of the unjittered delay.     *)
(***************************************************************************)
C5_Original ==
    \A c \in Calls :
        calls[c].pc = "sleeping" =>
            /\ Unjittered(c) <= calls[c].sleep_duration
            /\ 10 * calls[c].sleep_duration <= 11 * Unjittered(c)
            /\ calls[c].sleep_duration <= max_backoff

(***************************************************************************)
(* C5, amended: whenever a call sleeps at attempt index i, its delay d     *)
(* satisfies min(base_backoff * 2^i, max_backoff) <= d <=                  *)
(* min(base_backoff * 2^i + 0.1 * 2^i, max_backoff): the jitter is at most *)
(* 0.1 * 2^i seconds whatever base_backoff is, and the clamp may bring d   *)
(* below base_backoff * 2^i.                                               *)
(***************************************************************************)
C5_DelayBounds ==
    \A c \in Calls :
        calls[c].pc = "sleeping" =>
            /\ Min(Unjittered(c), max_backoff) <= calls[c].sleep_duration
            /\ calls[c].sleep_duration <=
                 Min(Unjittered(c) + 2 ^ calls[c].attempt_count, max_backoff)

\* A sleep below the clamp whose jitter is more than 10% of the unjittered
\* delay.
C5_Witness ==
    \E c \in Calls :
        /\ calls[c].pc = "sleeping"
        /\ calls[c].attempt_count = 1
        /\ base_backoff > 0
        /\ calls[c].sleep_duration < max_backoff
        /\ 10 * calls[c].sleep_duration > 11 * Unjittered(c)

(***************************************************************************)
(* C6: every duration passed to asyncio.sleep is >= 0 and <= max_backoff,  *)
(* also when base_backoff > max_backoff; with base_backoff = 0 and         *)
(* max_backoff = 0 every sleep duration is exactly 0.                      *)
(***************************************************************************)
C6_DelayClamped ==
    \A c \in Calls :
        calls[c].sleeps > 0 =>
            /\ 0 <= calls[c].sleep_duration
            /\ calls[c].sleep_duration <= max_backoff
            /\ (base_backoff = 0 /\ max_backoff = 0) =>
                   calls[c].sleep_duration = 0

C6_Witness ==
    \E c \in Calls :
        /\ calls[c].pc = "sleeping"
        /\ calls[c].attempt_count >= 1
        /\ base_backoff > max_backoff
        /\ max_backoff > 0
        /\ calls[c].sleep_duration = max_backoff

ExceededRetryLoop(c) ==
    calls[c].result.prefix = "Exceeded retry loop unexpectedly"

(***************************************************************************)
(* C7: with max_retries >= 0, no call ever raises APIError(None, "Exceeded *)
(* retry loop unexpectedly"), and attempt_count stays within               *)
(* 0..max_retries.                                                         *)
(***************************************************************************)
C7_LoopNeverFallsThrough ==
    max_retries >= 0 =>
        \A c \in Calls :
            /\ ~ExceededRetryLoop(c)
            /\ 0 <= calls[c].attempt_count
            /\ calls[c].attempt_count <= max_retries

\* A call that used its whole budget and ended by a raise inside the loop.
C7_Witness ==
    \E c \in Calls :
        /\ max_retries = MaxRetries
        /\ calls[c].pc = "raised"
        /\ calls[c].attempt_count = max_retries
        /\ calls[c].sleeps = max_retries
        /\ calls[c].result.type = "APIError"

(***************************************************************************)
(* C8: when a call raises the retry-exhausted "Server error" APIError, the *)
(* status it carries is the status of the last attempt made, whatever      *)
(* 5xx statuses or network failures the earlier attempts saw.              *)
(***************************************************************************)
C8_LastSeenStatus ==
    \A c \in Calls :
        calls[c].result.prefix = "Server error after" =>
            /\ Is5xx(Last(calls[c].outcomes))
            /\ calls[c].result.status = Last(calls[c].outcomes).status

C8_Witness ==
    \E c \in Calls :
        /\ max_retries = 2
        /\ calls[c].result.prefix = "Server error after"
        /\ calls[c].outcomes[1].status = Some(500)
        /\ IsConnection(calls[c].outcomes[2])
        /\ calls[c].outcomes[3].status = Some(502)
        /\ calls[c].result.status = Some(502)

C10_OnlyAPIError ==
    \A c \in Calls :
        calls[c].pc = "raised" => calls[c].result.type = "APIError"

\* What a call that ended on outcome o hands to its caller.
ResultOf(o) ==
    IF o.kind = "success" THEN Returned(o.body)
    ELSE IF Is5xx(o)
    THEN APIError(o.status, "Server error after", Some(max_retries), o.body)
    ELSE IF o.kind = "status"
    THEN APIError(o.status, "Client error", None, o.body)
    ELSE IF IsNetwork(o)
    THEN APIError(None, "Network failure after", Some(max_retries), o.body)
    ELSE Propagated(o.kind)

\* The state of call c is what its own attempts make it, and while c sleeps
\* every other call can take its next step.
C11_OwnState ==
    \A c \in Calls :
        /\ Attempts(c) >= 1 => calls[c].attempt_count = Attempts(c) - 1
        /\ Attempts(c) <= max_retries + 1
        /\ (Terminated(c) /\ calls[c].outcomes # <<>>) =>
               calls[c].result = ResultOf(Last(calls[c].outcomes))
        /\ calls[c].pc = "sleeping" =>
             \A d \in Calls \ {c} :
                /\ calls[d].pc = "idle" => ENABLED FetchData(d)
                /\ calls[d].pc = "request" => ENABLED ResponseJson(d)
                /\ calls[d].pc = "sleeping" => ENABLED SleepDone(d)

\* A step of one call leaves the frame of every other call as it is.
C11_OwnStep ==
    \A c, d \in Calls :
        (c # d /\ calls'[c] # calls[c]) => calls'[d] = calls[d]

(***************************************************************************)
(* C11: concurrent fetch_data calls on one client do not interfere: each   *)
(* call has its own attempt counter, its number of attempts and its result *)
(* follow from its own outcomes only, a step of one call never changes     *)
(* another call's frame, and while one call is suspended in its backoff    *)
(* sleep the other can still start, get its response and complete.         *)
(***************************************************************************)
C11_NoInterference == [](C11_OwnState) /\ [][C11_OwnStep]_vars

\* One call sleeps while the other has retried and returned.
C11_Witness ==
    \E c, d \in Calls :
        /\ c # d
        /\ calls[c].pc = "sleeping"
        /\ calls[d].pc = "returned"
        /\ calls[d].sleeps = 1

\* `client.session is None`. No statement of api.py assigns None to
\* self.session: the variable only ever holds "open" or "closed".
SessionIsNone == session = "None"

(***************************************************************************)
(* C12: inside an `async with DepsdevAPI() as client` block client.session *)
(* is not None, and after the block has exited client.session is None.     *)
(***************************************************************************)
C12_SessionNoneAfterBlock ==
    /\ context = "entered" => ~SessionIsNone
    /\ context = "exited" => SessionIsNone

(***************************************************************************)
(* C13: a client that was constructed, never entered as a context manager  *)
(* and never used has client.session None, before and after close().       *)
(***************************************************************************)
C13_NoSessionBeforeUse ==
    (context = "none" /\ \A c \in Calls : calls[c].pc = "idle") =>
        SessionIsNone

C15_FetchAfterCloseRaises ==
    [][\A c \in Calls :
          (session = "closed" /\ calls[c].pc = "idle"
             /\ calls'[c].pc # "idle") =>
                /\ calls'[c].pc = "raised"
                /\ calls'[c].result.type \notin {"return", "pending"}]_vars

C15_Witness ==
    \E c \in Calls :
        /\ session = "closed"
        /\ calls[c].invoked.method = "fetch_data"
        /\ calls[c].pc = "raised"
        /\ calls[c].attempt_count = 0
        /\ calls[c].outcomes =
             <<Outcome("RuntimeError", None, "Session is closed")>>
        /\ calls[c].result.type = "RuntimeError"

(***************************************************************************)
(* C16: no operation of the client (fetch_data whatever the outcomes, the  *)
(* endpoint methods, close, __aenter__, __aexit__) changes max_retries,    *)
(* base_backoff, max_backoff or timeout_duration.                          *)
(***************************************************************************)
C16_ConfigImmutable ==
    [][/\ max_retries' = max_retries
       /\ base_backoff' = base_backoff
       /\ max_backoff' = max_backoff
       /\ timeout_duration' = timeout_duration]_vars

\* An endpoint call that retried and ended, on a client whose block exited.
C16_Witness ==
    \E c \in Calls :
        /\ context = "exited"
        /\ calls[c].invoked.method = "get_dependencies"
        /\ calls[c].sleeps = 1
        /\ Terminated(c)

\* The system-limited endpoints the tests exercise.
SystemLimited ==
    {"get_requirements", "get_dependencies", "get_dependents",
     "get_capabilities"}

\* The call passed an identifier that no list of supported names holds.
InvalidArguments(i) ==
    \/ i.method \in SystemLimited /\ ~validate_system(i.system)
    \/ /\ i.method = "query_package_versions"
       /\ \/ i.hash_type # "" /\ ~validate_hash(i.hash_type)
          \/ i.system # "" /\ ~validate_system(i.system)

(***************************************************************************)
(* C17: a system-limited endpoint (get_requirements, get_dependencies,     *)
(* get_dependents, get_capabilities) called with an unsupported system,    *)
(* and query_package_versions called with an unsupported hash_type or      *)
(* version_system, raise ValueError and issue no HTTP attempt.             *)
(***************************************************************************)
C17_ValidationFirst ==
    \A c \in Calls :
        InvalidArguments(calls[c].invoked) =>
            /\ calls[c].pc = "raised"
            /\ calls[c].result.type = "ValueError"
            /\ Attempts(c) = 0

\* The message of the error raised contains `text`: the texts of the model
\* are told apart by the literal part of the message.
MessageContains(r, text) == r.prefix = text

(***************************************************************************)
(* C19: when the server answers the request with status 404, fetch_data    *)
(* raises APIError whose status is 404 and whose message contains          *)
(* "HTTP error".                                                           *)
(***************************************************************************)
C19_HttpErrorMessage ==
    \A c \in Calls :
        (Terminated(c) /\ calls[c].outcomes # <<>>
           /\ Last(calls[c].outcomes).status = Some(404)) =>
            /\ calls[c].pc = "raised"
            /\ calls[c].result.type = "APIError"
            /\ calls[c].result.status = Some(404)
            /\ MessageContains(calls[c].result, "HTTP error")

(***************************************************************************)
(* C20: get_version_batch takes a list of version requests: an empty list  *)
(* returns {"responses": []} with no request issued, and a list of more    *)
(* than 5000 requests raises ValueError.                                   *)
(***************************************************************************)
C20_BatchSizeGuard ==
    \A c \in Calls :
        calls[c].invoked.method = "get_version_batch" =>
            /\ calls[c].invoked.requests = 0 =>
                 /\ calls[c].result = Returned("{\"responses\": []}")
                 /\ Attempts(c) = 0
            /\ calls[c].invoked.requests > 5000 =>
                 /\ calls[c].result.type = "ValueError"
                 /\ Attempts(c) = 0

(***************************************************************************)
(* C18: validate_system and validate_hash accept an identifier iff its     *)
(* upper-cased form is in the allowed set (SUPPORTED_SYSTEMS, or the       *)
(* allowed_systems list the caller supplies, for validate_system;          *)
(* SUPPORTED_HASHES for validate_hash), and they reject any other name     *)
(* with a ValueError whose message contains "only available for".          *)
(***************************************************************************)
C18_ValidatorsAccept ==
    \A i \in 1 .. Len(validations) :
        LET v == validations[i]
            allowed == IF v.fn = "validate_hash" THEN SupportedHashes
                       ELSE IF v.passed THEN v.allowed
                       ELSE SupportedSystems
        IN /\ v.outcome = "ok" <=> Upper(v.arg) \in allowed
           /\ v.outcome # "ok" =>
                /\ v.outcome = "ValueError"
                /\ v.message =
                     "This operation is currently only available for"

\* The delays of a sleep whose exponent is i: the base doubled i times plus
\* a jitter of at most 0.1 * 2^i seconds, under the ceiling.
DelaysAt(i) ==
    {Min(base_backoff * (2 ^ i) + jitter, max_backoff) :
        jitter \in 0 .. (2 ^ i)}

\* Sleeps and attempts alternate: a call has slept once per attempt that
\* came before the current one, the sleep in progress follows the attempt
\* of index attempt_count and is computed with that exponent, and a call
\* that has ended has slept once less than it has made attempts.
C21_Alternation ==
    \A c \in Calls :
        /\ calls[c].pc = "sleeping" =>
              /\ calls[c].sleeps = calls[c].attempt_count + 1
              /\ calls[c].sleeps = Attempts(c)
              /\ calls[c].sleep_duration \in DelaysAt(calls[c].attempt_count)
        /\ calls[c].pc # "sleeping" =>
              calls[c].sleeps = calls[c].attempt_count
        /\ calls[c].pc = "request" => calls[c].sleeps = Attempts(c) - 1
        /\ (Terminated(c) /\ Attempts(c) >= 1) =>
              calls[c].sleeps = Attempts(c) - 1

\* attempt_count changes only when a sleep ends, and then by exactly 1; a
\* sleep starts only out of an attempt, and ends only into the next attempt
\* or the end of the call.
C21_Step ==
    \A c \in Calls :
        /\ calls'[c].attempt_count # calls[c].attempt_count =>
              /\ calls[c].pc = "sleeping"
              /\ calls'[c].attempt_count = calls[c].attempt_count + 1
        /\ (calls[c].pc # "sleeping" /\ calls'[c].pc = "sleeping") =>
              calls[c].pc = "request"
        /\ (calls[c].pc = "sleeping" /\ calls'[c].pc # "sleeping") =>
              /\ calls'[c].pc \in {"request", "raised"}
              /\ calls'[c].attempt_count = calls[c].attempt_count + 1

(***************************************************************************)
(* C21: within one call, attempts and backoff sleeps strictly alternate:   *)
(* exactly one sleep between attempt i and attempt i+1, its delay computed *)
(* with exponent i (the first sleep uses 2^0), after which attempt_count   *)
(* increases by exactly 1; no sleep before the first attempt or after the  *)
(* last one, so that at the end sleeps = attempts - 1.                     *)
(***************************************************************************)
C21_AttemptsAndSleepsAlternate == [](C21_Alternation) /\ [][C21_Step]_vars

\* The second sleep of a call: exponent 1, base 1s, ceiling 3s, jitter 0.2s.
C21_Witness ==
    \E c \in Calls :
        /\ base_backoff = 10 /\ max_backoff = 30
        /\ calls[c].pc = "sleeping"
        /\ calls[c].attempt_count = 1
        /\ calls[c].sleeps = 2
        /\ calls[c].sleep_duration = 22

\* The attempt that ended the call with a payload had a response of status
\* 2xx.
Answered2xx(c) ==
    LET o == Last(calls[c].outcomes)
    IN o.kind = "success" /\ 200 <= o.status[1] /\ o.status[1] <= 299

(***************************************************************************)
(* C22: fetch_data returns a payload only when the response of the attempt *)
(* has a 2xx status; a response of status 4xx or 5xx is never handed back  *)
(* as a successful payload, whatever its body.                             *)
(***************************************************************************)
C22_PayloadOnly2xx ==
    \A c \in Calls : calls[c].pc = "returned" => Answered2xx(c)

\* No call has made more attempts, each one round trip of session.get, than
\* max_retries + 1.
C23_WithinBudget ==
    max_retries >= 0 =>
        \A c \in Calls : Attempts(c) <= max_retries + 1

\* A step adds at most one attempt to a call, and takes none back.
C23_OneRoundTrip ==
    \A c \in Calls :
        \/ Attempts(c)' = Attempts(c)
        \/ Attempts(c)' = Attempts(c) + 1 /\ calls'[c].pc = "request"
        \/ /\ Attempts(c)' = Attempts(c) + 1
           /\ session = "closed"
           /\ Last(calls'[c].outcomes).kind = "RuntimeError"

(***************************************************************************)
(* C23: every fetch_data call terminates, returning a payload or raising,  *)
(* after at most max_retries + 1 round trips, for every max_retries >= 0   *)
(* and every sequence of attempt outcomes, provided each transport call    *)
(* and each sleep completes; an attempt is one round trip, and the count   *)
(* of round trips exceeds max_retries + 1 in no reachable state.           *)
(***************************************************************************)
C23_TerminatesWithinBudget ==
    /\ [](C23_WithinBudget)
    /\ [][C23_OneRoundTrip]_vars
    /\ \A c \in Calls :
          (max_retries >= 0 /\ calls[c].pc # "idle") ~> Terminated(c)

\* A call that used its whole budget of three round trips and ended.
C23_Witness ==
    \E c \in Calls :
        /\ max_retries = 2
        /\ Terminated(c)
        /\ Attempts(c) = max_retries + 1
        /\ calls[c].sleeps = max_retries

\* The exception of an attempt is neither an aiohttp.ClientResponseError nor
\* one of the two network failures the code catches.
IsUnexpected(o) == o.kind \notin {"success", "status"} /\ ~IsNetwork(o)

(***************************************************************************)
(* C24: a transport exception that is neither an HTTP status error nor a   *)
(* connection/timeout failure is not retried: fetch_data ends on the       *)
(* attempt where it occurs, with that exception, no backoff sleep and no   *)
(* further attempt, however much of the attempt budget remains.            *)
(***************************************************************************)
C24_UnexpectedIsTerminal ==
    \A c \in Calls :
        \A i \in 1 .. Len(calls[c].outcomes) :
            IsUnexpected(calls[c].outcomes[i]) =>
                /\ i = Len(calls[c].outcomes)
                /\ calls[c].pc = "raised"
                /\ calls[c].result = Propagated(calls[c].outcomes[i].kind)
                /\ Attempts(c) = i
                /\ calls[c].sleeps = i - 1
                /\ calls[c].attempt_count = i - 1

\* An unparseable body on the first of three allowed attempts.
C24_Witness ==
    \E c \in Calls :
        /\ max_retries = 2
        /\ calls[c].outcomes = <<Outcome("JSONDecodeError", None, "")>>
        /\ calls[c].pc = "raised"
        /\ calls[c].attempt_count = 0
        /\ calls[c].sleeps = 0

\* The attempt ended with an aiohttp.ClientResponseError.
IsStatusError(o) == o.kind = "status"

====
